---- MODULE Spec2Model ----
(***************************************************************************)
(* Model of the hybrid retrieval chat route of ragger                      *)
(* (src/unnamed/part_001): the score normaliser and rank fuser             *)
(* (weightedFusion) and the POST handler that embeds the query, searches,  *)
(* fuses, joins metadata, assembles the context block and generates.      *)
(* Further: the POST handlers of /api/users (src/unnamed/part_002) and      *)
(* /api/messages (src/unnamed/part_000) under concurrent requests, and the *)
(* send handler of the chat page (src/frontend/src/app/chat/page.tsx).     *)
(*                                                                         *)
(* Numbers.  JavaScript numbers are modelled as exact rationals [n, d] in  *)
(* lowest terms; rounding of IEEE doubles is not modelled.                 *)
(* Ids.  Ids are strings.  The scores map of weightedFusion is a plain     *)
(* object, whose own keys enumerate array-index-like keys ("7", "10")      *)
(* first, in ascending numeric order, and the other keys in insertion      *)
(* order.  Ids that name members of Object.prototype are not in the        *)
(* modelled id universe.                                                   *)
(***************************************************************************)
EXTENDS Integers, Sequences, FiniteSets, TLC

VARIABLES
    pc,             \* position of the request / of the fusion application
    userQuery,      \* content of the last user message, "" if none
    vectorResults,  \* rows of the vector (ANN) query
    bm25Results,    \* rows of the lexical (BM25) query
    alpha,          \* fusion weight of the vector ranking
    vNorm,          \* normalize(vectorResults)
    bNorm,          \* normalize(bm25Results)
    ranges,         \* the range normalize computed and logged for each ranking
    fusedResults,   \* result of weightedFusion
    topK,           \* K of the truncation
    topFusedIds,    \* ids of fusedResults.slice(0, K)
    ragRows,        \* ragResult.rows
    vectorIds,      \* ids the metadata query asks for
    metaState,      \* outcome of the metadata query
    metadata,       \* vector ids of the metadata records returned
    contextItems,   \* non-empty texts of the selected rows
    contextBlock,   \* assembled context block
    response,       \* HTTP status of the response, 0 while none
    calls,          \* number of calls made to each upstream service
    failedAt,       \* the step that threw, "none" if no step threw
    users,          \* rows of the users table
    userReq,        \* the POST /api/users requests in flight
    conversations,  \* rows of the conversations table
    messages,       \* rows of the messages table
    msgReq,         \* the POST /api/messages requests in flight
    now,            \* the clock read by new Date()
    input,          \* React state of the chat page: text of the input box
    isLoading,      \* React state of the chat page: a send is in progress
    conversationId, \* React state of the chat page: the conversation
    rendered,       \* the state captured by the handlers of the last render
    sends,          \* the invocations of handleSend
    fetches         \* the requests each invocation of handleSend issued

chatVars == <<pc, userQuery, vectorResults, bm25Results, alpha, vNorm, bNorm,
              ranges, fusedResults, topK, topFusedIds, ragRows, vectorIds,
              metaState, metadata, contextItems, contextBlock, response,
              calls, failedAt>>

usersVars == <<users, userReq>>

messagesVars == <<conversations, messages, msgReq, now>>

pageVars == <<input, isLoading, conversationId, rendered, sends, fetches>>

\* The variables the chat route does not touch.
webVars == <<usersVars, messagesVars, pageVars>>

vars == <<chatVars, usersVars, messagesVars, pageVars>>

-----------------------------------------------------------------------------
(* Bounds and input domains *)

MaxLen == 2         \* longest ranking returned by one query
MaxK == 2           \* largest K tried on the fusion alone
MaxRequests == 3    \* concurrent requests to /api/users
MaxPosts == 2       \* concurrent requests to /api/messages
MaxSends == 2       \* invocations of handleSend

RAG_TOP_K == 3

FusionIds == {"a", "b", "7"}

\* An attribute of a row that may be absent: <<>> when it is undefined,
\* <<v>> when it is v.
Undefined == <<>>
Some(v) == <<v>>

DistValues == {Undefined, Some(1), Some(3)}

CorpusIds == {"a", "b", "c", "7"}
SearchDistValues == {Some(1), Some(3)}

-----------------------------------------------------------------------------
(* Exact rational arithmetic standing for JavaScript numbers *)

RECURSIVE GCD(_, _)
GCD(x, y) == IF y = 0 THEN x ELSE GCD(y, x % y)

\* n / d.  A division by zero gives NaN (0/0) or an infinity, as in
\* JavaScript, written with denominator 0.
Rat(n, d) ==
    IF d = 0 THEN [n |-> IF n < 0 THEN -1 ELSE IF n = 0 THEN 0 ELSE 1, d |-> 0]
    ELSE LET g == GCD(IF n < 0 THEN -n ELSE n, d)
         IN  [n |-> n \div g, d |-> d \div g]

NaN == [n |-> 0, d |-> 0]

Zero == [n |-> 0, d |-> 1]
One == [n |-> 1, d |-> 1]

RatAdd(x, y) == Rat(x.n * y.d + y.n * x.d, x.d * y.d)
RatSub(x, y) == Rat(x.n * y.d - y.n * x.d, x.d * y.d)
RatMul(x, y) == Rat(x.n * y.n, x.d * y.d)
RatLess(x, y) == x.n * y.d < y.n * x.d
RatLeq(x, y) == x.n * y.d <= y.n * x.d

FUSION_ALPHA == [n |-> 1, d |-> 2]

Alphas == {Zero, [n |-> 1, d |-> 4], FUSION_ALPHA, One}

-----------------------------------------------------------------------------
(* Helpers on sequences *)

Range(s) == {s[i] : i \in 1..Len(s)}

Slice(s, k) == SubSeq(s, 1, IF k < Len(s) THEN k ELSE Len(s))

\* The sequences without repetition over S of length at most n.
RECURSIVE UniqueSeqs(_, _)
UniqueSeqs(S, n) ==
    IF n = 0 \/ S = {} THEN {<<>>}
    ELSE {<<>>} \cup
         UNION {{<<x>> \o p : p \in UniqueSeqs(S \ {x}, n - 1)} : x \in S}

-----------------------------------------------------------------------------
(* normalize *)

\* r.dist ?? 0
DistOrZero(r) == IF r.dist = Undefined THEN 0 ELSE r.dist[1]

NegInfinity == "-Infinity"
PosInfinity == "Infinity"

RawScores(arr) == [i \in 1..Len(arr) |-> DistOrZero(arr[i])]

MathMax(s) ==
    IF Len(s) = 0 THEN NegInfinity
    ELSE CHOOSE m \in Range(s) : \A x \in Range(s) : x <= m

MathMin(s) ==
    IF Len(s) = 0 THEN PosInfinity
    ELSE CHOOSE m \in Range(s) : \A x \in Range(s) : m <= x

NormRangeOfMax(max, min) == IF max = 0 THEN 1 ELSE max

NormRangeUnguarded(max, min) == max - min

\* max - min || 1, for the finite max and min of a list with elements.
NormRange(max, min) == IF max - min = 0 THEN 1 ELSE max - min

\* The range normalize computes for arr, which it logs before mapping.  Of
\* an empty list Math.max is -Infinity and Math.min is Infinity: their
\* difference is -Infinity, which || keeps.
RangeOf(arr) ==
    IF Len(arr) = 0 /\ MathMax(RawScores(arr)) = NegInfinity
    THEN NegInfinity
    ELSE NormRange(MathMax(RawScores(arr)), MathMin(RawScores(arr)))

NormScore(r, min, range) == Rat(DistOrZero(r) - min, range)

normalizeEmptyAsNaN(arr) ==
    IF Len(arr) = 0 THEN <<[id |-> "undefined", score |-> NaN]>>
    ELSE [i \in 1..Len(arr) |->
             [id |-> arr[i].id,
              score |-> NormScore(arr[i], MathMin(RawScores(arr)), RangeOf(arr))]]

normalize(arr) ==
    LET scores == RawScores(arr)
        max == MathMax(scores)
        min == MathMin(scores)
        range == NormRange(max, min)
    IN  [i \in 1..Len(arr) |->
            [id |-> arr[i].id, score |-> NormScore(arr[i], min, range)]]

-----------------------------------------------------------------------------
(* The scores object of weightedFusion: own keys in insertion order, and   *)
(* their values.                                                           *)

EmptyObject == [keys |-> <<>>, val |-> <<>>]

HasKey(obj, id) == \E i \in 1..Len(obj.keys) : obj.keys[i] = id

KeyIndex(obj, id) == CHOOSE i \in 1..Len(obj.keys) : obj.keys[i] = id

\* scores[id] || 0
GetOrZero(obj, id) ==
    IF HasKey(obj, id) THEN obj.val[KeyIndex(obj, id)] ELSE Zero

SetKeyAppend(obj, id, v) ==
    [keys |-> Append(obj.keys, id), val |-> Append(obj.val, v)]

\* scores[id] = v
SetKey(obj, id, v) ==
    IF HasKey(obj, id)
    THEN [obj EXCEPT !.val[KeyIndex(obj, id)] = v]
    ELSE [keys |-> Append(obj.keys, id), val |-> Append(obj.val, v)]

RECURSIVE AccumulateOverwrite(_, _, _)
AccumulateOverwrite(obj, norm, weight) ==
    IF norm = <<>> THEN obj
    ELSE LET r == Head(norm)
         IN  AccumulateOverwrite(
                 SetKey(obj, r.id, RatMul(weight, r.score)), Tail(norm), weight)

\* scores[r.id] = (scores[r.id] || 0) + weight * r.score, for each r in turn
RECURSIVE Accumulate(_, _, _)
Accumulate(obj, norm, weight) ==
    IF norm = <<>> THEN obj
    ELSE LET r == Head(norm)
         IN  Accumulate(
                 SetKey(obj, r.id,
                        RatAdd(GetOrZero(obj, r.id), RatMul(weight, r.score))),
                 Tail(norm), weight)

\* The value of the canonical array indices among the ids.
ArrayIndex == ("7" :> 7) @@ ("10" :> 10)

IsArrayIndex(id) == id \in DOMAIN ArrayIndex

RECURSIVE SortIndexKeys(_)
SortIndexKeys(S) ==
    IF S = {} THEN <<>>
    ELSE LET m == CHOOSE x \in S : \A y \in S : ArrayIndex[x] <= ArrayIndex[y]
         IN  <<m>> \o SortIndexKeys(S \ {m})

\* OwnPropertyKeys: array indices ascending, then strings as inserted.
OwnKeys(obj) ==
    SortIndexKeys({k \in Range(obj.keys) : IsArrayIndex(k)})
        \o SelectSeq(obj.keys, LAMBDA k : ~IsArrayIndex(k))

ObjectEntries(obj) ==
    LET ks == OwnKeys(obj)
    IN  [i \in 1..Len(ks) |-> [id |-> ks[i], score |-> GetOrZero(obj, ks[i])]]

\* Insert e into the sorted sequence s behind every entry that does not
\* compare after it under (a, b) => b - a.
RECURSIVE InsertDesc(_, _)
InsertDesc(s, e) ==
    IF s = <<>> THEN <<e>>
    ELSE IF RatLess(Head(s).score, e.score) THEN <<e>> \o s
    ELSE <<Head(s)>> \o InsertDesc(Tail(s), e)

\* Array.prototype.sort with (a, b) => b - a: stable, descending.
RECURSIVE SortDesc(_)
SortDesc(s) ==
    IF s = <<>> THEN <<>>
    ELSE InsertDesc(SortDesc(SubSeq(s, 1, Len(s) - 1)), s[Len(s)])

OneMinus(a) == RatSub(One, a)

FusedScoresSameWeight(vectorRows, bm25Rows, a) ==
    Accumulate(Accumulate(EmptyObject, normalize(vectorRows), a),
               normalize(bm25Rows), a)

FusedScores(vectorRows, bm25Rows, a) ==
    Accumulate(Accumulate(EmptyObject, normalize(vectorRows), a),
               normalize(bm25Rows), OneMinus(a))

weightedFusion(vectorRows, bm25Rows, a) ==
    SortDesc(ObjectEntries(FusedScores(vectorRows, bm25Rows, a)))

IdsOf(s) == [i \in 1..Len(s) |-> s[i].id]

IdSet(rows) == {rows[i].id : i \in 1..Len(rows)}

-----------------------------------------------------------------------------
(* Application of the fusion alone to every pair of small rankings *)

\* The text attribute of the documents of the corpus: two documents with
\* text, one with an empty text and one without the attribute.
CorpusText(id) ==
    CASE id = "a" -> Some("text of a")
      [] id = "b" -> Some("text of b")
      [] id = "c" -> Some("")
      [] OTHER -> Undefined

Row(id, dist) == [id |-> id, dist |-> dist, text |-> CorpusText(id)]

\* The rankings of at most n rows a query can return over ids: each id at
\* most once, any raw score in each row.
Rankings(ids, n, dists) ==
    UNION {{[i \in 1..Len(p) |-> Row(p[i], ds[i])] :
                ds \in [1..Len(p) -> dists]} :
           p \in UniqueSeqs(ids, n)}

Idle ==
    /\ userQuery = ""
    /\ vNorm = <<>>
    /\ bNorm = <<>>
    /\ ranges = <<>>
    /\ fusedResults = <<>>
    /\ topK = 0
    /\ topFusedIds = <<>>
    /\ ragRows = <<>>
    /\ vectorIds = <<>>
    /\ metaState = "none"
    /\ metadata = {}
    /\ contextItems = <<>>
    /\ contextBlock = ""
    /\ response = 0
    /\ calls = [embed |-> 0, search |-> 0, meta |-> 0, gen |-> 0]
    /\ failedAt = "none"

\* No request to /api/users is in flight.
UsersIdle ==
    /\ users = <<>>
    /\ userReq = <<>>

\* No request to /api/messages is in flight.
MessagesIdle ==
    /\ conversations = <<>>
    /\ messages = <<>>
    /\ msgReq = <<>>
    /\ now = 0

\* The chat page is not mounted.
PageIdle ==
    /\ input = ""
    /\ isLoading = FALSE
    /\ conversationId = Undefined
    /\ rendered = <<>>
    /\ sends = <<>>
    /\ fetches = <<>>

\* Documents "a" and "b" are alike (both have text, both or neither have a
\* metadata record, neither id is an array index), so of two search results that differ by
\* exchanging them only the one that names "a" first is kept.
SeenBefore(x, y, vectorRows, bm25Rows) ==
    LET seen == IdsOf(vectorRows) \o IdsOf(bm25Rows)
    IN  \A j \in 1..Len(seen) :
            seen[j] = y => \E i \in 1..j : seen[i] = x

FusionInit ==
    /\ pc = "fusion_in"
    /\ vectorResults \in Rankings(FusionIds, Cardinality(FusionIds), DistValues)
    /\ bm25Results \in Rankings(FusionIds, Cardinality(FusionIds), DistValues)
    /\ SeenBefore("a", "b", vectorResults, bm25Results)
    /\ alpha \in Alphas
    /\ Idle
    /\ UsersIdle
    /\ MessagesIdle
    /\ PageIdle

ApplyFusion ==
    /\ pc = "fusion_in"
    /\ vNorm' = normalize(vectorResults)
    /\ bNorm' = normalize(bm25Results)
    /\ ranges' = <<RangeOf(vectorResults), RangeOf(bm25Results)>>
    /\ fusedResults' = weightedFusion(vectorResults, bm25Results, alpha)
    /\ pc' = "fusion_out"
    /\ UNCHANGED <<userQuery, vectorResults, bm25Results, alpha, topK,
                   topFusedIds, ragRows, vectorIds, metaState, metadata,
                   contextItems, contextBlock, response, calls, failedAt>>
    /\ UNCHANGED webVars

ApplySlice ==
    /\ pc = "fusion_out"
    /\ \E k \in 0..MaxK :
          /\ topK' = k
          /\ topFusedIds' = IdsOf(Slice(fusedResults, k))
    /\ pc' = "fusion_top"
    /\ UNCHANGED <<userQuery, vectorResults, bm25Results, alpha, vNorm, bNorm,
                   ranges, fusedResults, ragRows, vectorIds, metaState,
                   metadata, contextItems, contextBlock, response, calls,
                   failedAt>>
    /\ UNCHANGED webVars

FusionNext == ApplyFusion \/ ApplySlice

FusionSpec == FusionInit /\ [][FusionNext]_vars

-----------------------------------------------------------------------------
(* POST /api/chat *)

\* The last user message of the request body: none, blank or a question.
Queries == {"", " ", "when does the pool close"}

\* The contents hoa_doc_metadata may have, as the set of vector ids with a
\* record: no record, the record of one document, the records of the
\* documents with text.
MetadataStores == {{}, {"c"}, {"a", "b"}}

\* The single inArray query: the records whose vectorId is among ids.
LookupMany(store, ids) == {id \in store : \E i \in 1..Len(ids) : ids[i] = id}

\* allRowsById.get(id): the vector row of the id if there is one, else the
\* first lexical row of the id.
RowByIdLexicalFirst(vectorRows, bm25Rows, id) ==
    IF id \in IdSet(bm25Rows)
    THEN bm25Rows[CHOOSE i \in 1..Len(bm25Rows) :
                      /\ bm25Rows[i].id = id
                      /\ \A j \in 1..i - 1 : bm25Rows[j].id # id]
    ELSE vectorRows[CHOOSE i \in 1..Len(vectorRows) :
                        /\ vectorRows[i].id = id
                        /\ \A j \in i + 1..Len(vectorRows) :
                              vectorRows[j].id # id]

RowById(vectorRows, bm25Rows, id) ==
    IF id \in IdSet(vectorRows)
    THEN vectorRows[CHOOSE i \in 1..Len(vectorRows) :
                        /\ vectorRows[i].id = id
                        /\ \A j \in i + 1..Len(vectorRows) :
                              vectorRows[j].id # id]
    ELSE bm25Rows[CHOOSE i \in 1..Len(bm25Rows) :
                      /\ bm25Rows[i].id = id
                      /\ \A j \in 1..i - 1 : bm25Rows[j].id # id]

\* topFusedIds.map((id) => allRowsById.get(id)).filter(Boolean)
RagRows(vectorRows, bm25Rows, ids) ==
    LET known == SelectSeq(ids, LAMBDA id :
                     id \in IdSet(vectorRows) \cup IdSet(bm25Rows))
    IN  [i \in 1..Len(known) |-> RowById(vectorRows, bm25Rows, known[i])]

\* row.text.substring(0, 200) throws on a row without text.
LogThrows(rows) == \E i \in 1..Len(rows) : rows[i].text = Undefined

\* row.text || ""
TextOrEmpty(row) == IF row.text = Undefined THEN "" ELSE row.text[1]

ContextItems(rows) ==
    SelectSeq([i \in 1..Len(rows) |-> TextOrEmpty(rows[i])],
              LAMBDA text : Len(text) > 0)

RECURSIVE Join(_, _)
Join(items, sep) ==
    IF items = <<>> THEN ""
    ELSE IF Len(items) = 1 THEN items[1]
    ELSE items[1] \o sep \o Join(Tail(items), sep)

ContextBlockAlwaysWrapped(items) ==
    "START CONTEXT BLOCK\n" \o Join(items, "\n\n") \o "\nEND OF CONTEXT BLOCK"

ContextBlock(items) ==
    IF Len(items) > 0
    THEN "START CONTEXT BLOCK\n" \o Join(items, "\n\n")
             \o "\nEND OF CONTEXT BLOCK"
    ELSE ""

Init ==
    /\ pc = "start"
    /\ vectorResults = <<>>
    /\ bm25Results = <<>>
    /\ alpha = FUSION_ALPHA
    /\ Idle
    /\ UsersIdle
    /\ MessagesIdle
    /\ PageIdle

CalledTwice(service) == [calls EXCEPT ![service] = @ + 2]

Called(service) == [calls EXCEPT ![service] = @ + 1]

ThrowSwallowed(step) ==
    /\ failedAt' = step
    /\ response' = response
    /\ pc' = "generating"

\* The catch block: log the error and answer 500.
Throw(step) ==
    /\ failedAt' = step
    /\ response' = 500
    /\ pc' = "done"

\* req.json() and the choice of the last user message, up to the call of
\* the embedding service.
ReceiveRequest ==
    /\ pc = "start"
    /\ \/ /\ Throw("parse")
          /\ UNCHANGED <<userQuery, calls>>
       \/ \E query \in Queries :
             /\ userQuery' = query
             /\ calls' = Called("embed")
             /\ pc' = "embedding"
             /\ UNCHANGED <<response, failedAt>>
    /\ UNCHANGED <<vectorResults, bm25Results, alpha, vNorm, bNorm, ranges,
                   fusedResults, topK, topFusedIds, ragRows, vectorIds,
                   metaState, metadata, contextItems, contextBlock>>
    /\ UNCHANGED webVars

\* The embedding call returns or throws; on return the search is called.
EmbedReturns ==
    /\ pc = "embedding"
    /\ \/ /\ Throw("embed")
          /\ UNCHANGED calls
       \/ /\ calls' = Called("search")
          /\ pc' = "searching"
          /\ UNCHANGED <<response, failedAt>>
    /\ UNCHANGED <<userQuery, vectorResults, bm25Results, alpha, vNorm, bNorm,
                   ranges, fusedResults, topK, topFusedIds, ragRows,
                   vectorIds, metaState, metadata, contextItems, contextBlock>>
    /\ UNCHANGED webVars

\* From the context items to the call of the generation service.
ContextRowsWithMetadata(rows, metadataMap) ==
    SelectSeq(rows, LAMBDA row : row.id \in metadataMap)

\* The rows the context is built from: ragResult.rows, whatever records
\* metadataMap holds.
ContextRows(rows, metadataMap) == rows

AssembleAndGenerate(rows, metadataMap) ==
    /\ contextItems' = ContextItems(ContextRows(rows, metadataMap))
    /\ contextBlock' = ContextBlock(ContextItems(ContextRows(rows, metadataMap)))
    /\ calls' = Called("gen")
    /\ pc' = "generating"
    /\ UNCHANGED <<response, failedAt>>

\* The search returns or throws; on return the rankings are fused, the top
\* RAG_TOP_K rows are chosen and, if there are any, the metadata is queried.
SearchReturns ==
    /\ pc = "searching"
    /\ \/ /\ Throw("search")
          /\ UNCHANGED <<vectorResults, bm25Results, vNorm, bNorm, ranges,
                         fusedResults, topK, topFusedIds, ragRows, vectorIds,
                         contextItems, contextBlock, calls>>
       \/ \E vectorRows, bm25Rows \in
                  Rankings(CorpusIds, MaxLen, SearchDistValues) :
             LET fused == weightedFusion(vectorRows, bm25Rows, alpha)
                 ids == IdsOf(Slice(fused, RAG_TOP_K))
                 rows == RagRows(vectorRows, bm25Rows, ids)
             IN  /\ SeenBefore("a", "b", vectorRows, bm25Rows)
                 /\ vectorResults' = vectorRows
                 /\ bm25Results' = bm25Rows
                 /\ vNorm' = normalize(vectorRows)
                 /\ bNorm' = normalize(bm25Rows)
                 /\ ranges' = <<RangeOf(vectorRows), RangeOf(bm25Rows)>>
                 /\ fusedResults' = fused
                 /\ topK' = RAG_TOP_K
                 /\ topFusedIds' = ids
                 /\ ragRows' = rows
                 /\ vectorIds' = IdsOf(rows)
                 /\ IF Len(IdsOf(rows)) > 0
                    THEN /\ calls' = Called("meta")
                         /\ pc' = "metadata"
                         /\ UNCHANGED <<contextItems, contextBlock, response,
                                        failedAt>>
                    ELSE AssembleAndGenerate(rows, metadata)
    /\ UNCHANGED <<userQuery, alpha, metaState, metadata>>
    /\ UNCHANGED webVars

\* The metadata query returns or throws; on return the rows are logged,
\* which throws on a row without text, and the context is assembled.
MetadataReturns ==
    /\ pc = "metadata"
    /\ \/ /\ metaState' = "failed"
          /\ Throw("metadata")
          /\ UNCHANGED <<metadata, contextItems, contextBlock, calls>>
       \/ /\ metaState' = "ok"
          /\ \E store \in MetadataStores :
                /\ metadata' = LookupMany(store, vectorIds)
                /\ IF LogThrows(ragRows)
                   THEN /\ Throw("log")
                        /\ UNCHANGED <<contextItems, contextBlock, calls>>
                   ELSE AssembleAndGenerate(ragRows,
                                            LookupMany(store, vectorIds))
    /\ UNCHANGED <<userQuery, vectorResults, bm25Results, alpha, vNorm, bNorm,
                   ranges, fusedResults, topK, topFusedIds, ragRows,
                   vectorIds>>
    /\ UNCHANGED webVars

\* The generation call returns or throws.
GenerateReturns ==
    /\ pc = "generating"
    /\ \/ Throw("generate")
       \/ /\ response' = 200
          /\ pc' = "done"
          /\ UNCHANGED failedAt
    /\ UNCHANGED <<userQuery, vectorResults, bm25Results, alpha, vNorm, bNorm,
                   ranges, fusedResults, topK, topFusedIds, ragRows,
                   vectorIds, metaState, metadata, contextItems, contextBlock,
                   calls>>
    /\ UNCHANGED webVars

Next ==
    \/ ReceiveRequest
    \/ EmbedReturns
    \/ SearchReturns
    \/ MetadataReturns
    \/ GenerateReturns

Spec == Init /\ [][Next]_vars

-----------------------------------------------------------------------------
(* POST /api/users, several requests at once *)

Requests == 1..MaxRequests

\* The chat route is not running.
ChatIdle ==
    /\ pc = "idle"
    /\ vectorResults = <<>>
    /\ bm25Results = <<>>
    /\ alpha = FUSION_ALPHA
    /\ Idle

\* What auth() and currentUser() give for the session of a request: nobody
\* signed in, a user with an email address, a user without one.
Sessions ==
    {[userId |-> Undefined, email |-> Undefined],
     [userId |-> Some("user_1"), email |-> Some("one@example.com")],
     [userId |-> Some("user_2"), email |-> Undefined]}

\* A request that has not started: no session read, no response sent.
NewUserRequest ==
    [pc |-> "start", session |-> [userId |-> Undefined, email |-> Undefined],
     status |-> 0, body |-> Undefined]

\* select().from(users).where(eq(users.id, id)).limit(1)
SelectUser(table, id) ==
    IF \E i \in 1..Len(table) : table[i].id = id
    THEN Some(table[CHOOSE i \in 1..Len(table) : table[i].id = id])
    ELSE Undefined

\* id is the primary key of users: an insert of a second row with the id of
\* a row of the table is refused.
ViolatesPrimaryKey(table, row) ==
    \E i \in 1..Len(table) : table[i].id = row.id

\* NextResponse.json(body, {status})
UserResponds(r, status, body) ==
    userReq' = [userReq EXCEPT ![r].pc = "done",
                               ![r].status = status,
                               ![r].body = body]

UsersInit ==
    /\ users = <<>>
    /\ userReq = [r \in Requests |-> NewUserRequest]
    /\ ChatIdle
    /\ MessagesIdle
    /\ PageIdle

\* auth() and currentUser(): 401 without a signed-in user.
UsersAuth(r) ==
    /\ userReq[r].pc = "start"
    /\ \E session \in Sessions :
          IF session.userId = Undefined
          THEN UserResponds(r, 401, Undefined)
          ELSE userReq' = [userReq EXCEPT ![r].pc = "select",
                                          ![r].session = session]
    /\ UNCHANGED <<users, chatVars, messagesVars, pageVars>>

\* The lookup of the user: 200 with the row found, else 400 when the
\* session has no email address, else on to the insert.
UsersSelect(r) ==
    /\ userReq[r].pc = "select"
    /\ LET existingUser == SelectUser(users, userReq[r].session.userId[1])
       IN  IF existingUser # Undefined
           THEN UserResponds(r, 200, existingUser)
           ELSE IF userReq[r].session.email = Undefined
           THEN UserResponds(r, 400, Undefined)
           ELSE userReq' = [userReq EXCEPT ![r].pc = "insert"]
    /\ UNCHANGED <<users, chatVars, messagesVars, pageVars>>

\* The insert of the user: 201 with the new row; the insert throws when the
\* table has a row of that id by now, and the catch block answers 500.
UsersInsert(r) ==
    /\ userReq[r].pc = "insert"
    /\ LET newUser == [id |-> userReq[r].session.userId[1],
                       email |-> userReq[r].session.email[1]]
       IN  IF ViolatesPrimaryKey(users, newUser)
           THEN /\ UserResponds(r, 500, Undefined)
                /\ UNCHANGED users
           ELSE /\ users' = Append(users, newUser)
                /\ UserResponds(r, 201, Some(newUser))
    /\ UNCHANGED <<chatVars, messagesVars, pageVars>>

UsersNext ==
    \E r \in Requests : UsersAuth(r) \/ UsersSelect(r) \/ UsersInsert(r)

UsersSpec == UsersInit /\ [][UsersNext]_vars

-----------------------------------------------------------------------------
(* POST /api/messages, several requests at once *)

Posts == 1..MaxPosts

\* The conversations table: one conversation of each of two users, neither
\* updated since the clock started.
ConversationRows ==
    <<[id |-> "c1", userId |-> "user_1", updatedAt |-> 0],
      [id |-> "c2", userId |-> "user_2", updatedAt |-> 0]>>

\* What auth() gives: nobody signed in, or one of the two users.
MessageUserIds == {Undefined, Some("user_1"), Some("user_2")}

\* The bodies of the requests: the conversation is the one of the first
\* user, the one of the second, or one that does not exist.
MessageBodies ==
    [conversationId : {"c1", "c2", "c3"},
     role : {"user", "assistant"},
     content : {"hello"}]

NewMessageRequest ==
    [pc |-> "start", userId |-> Undefined, body |-> Undefined, status |-> 0]

FindConversationAnyOwner(table, id, userId) ==
    IF \E i \in 1..Len(table) : table[i].id = id
    THEN Some(table[CHOOSE i \in 1..Len(table) : table[i].id = id])
    ELSE Undefined

\* select().from(conversations).where(and(eq(conversations.id, id),
\* eq(conversations.userId, userId))).limit(1)
FindConversation(table, id, userId) ==
    IF \E i \in 1..Len(table) : table[i].id = id /\ table[i].userId = userId
    THEN Some(table[CHOOSE i \in 1..Len(table) :
                        table[i].id = id /\ table[i].userId = userId])
    ELSE Undefined

\* update(conversations).set({updatedAt}).where(eq(conversations.id, id))
TouchConversation(table, id, time) ==
    [i \in 1..Len(table) |->
        IF table[i].id = id THEN [table[i] EXCEPT !.updatedAt = time]
        ELSE table[i]]

MessageResponds(r, status) ==
    msgReq' = [msgReq EXCEPT ![r].pc = "done", ![r].status = status]

MessagesInit ==
    /\ conversations = ConversationRows
    /\ messages = <<>>
    /\ msgReq = [r \in Posts |-> NewMessageRequest]
    /\ now = 1
    /\ ChatIdle
    /\ UsersIdle
    /\ PageIdle

\* auth() and request.json(): 401 without a signed-in user, 500 from the
\* catch block when the body does not parse.
MessagesAuth(r) ==
    /\ msgReq[r].pc = "start"
    /\ \E userId \in MessageUserIds :
          IF userId = Undefined
          THEN MessageResponds(r, 401)
          ELSE \/ msgReq' = [msgReq EXCEPT ![r].pc = "done",
                                           ![r].userId = userId,
                                           ![r].status = 500]
               \/ \E body \in MessageBodies :
                     msgReq' = [msgReq EXCEPT ![r].pc = "select",
                                              ![r].userId = userId,
                                              ![r].body = Some(body)]
    /\ UNCHANGED <<conversations, messages, now, chatVars, usersVars,
                   pageVars>>

\* The lookup of the conversation of the user: 404 when there is none.
MessagesSelect(r) ==
    /\ msgReq[r].pc = "select"
    /\ LET conversation ==
               FindConversation(conversations,
                                msgReq[r].body[1].conversationId,
                                msgReq[r].userId[1])
       IN  IF conversation = Undefined
           THEN MessageResponds(r, 404)
           ELSE msgReq' = [msgReq EXCEPT ![r].pc = "insert"]
    /\ UNCHANGED <<conversations, messages, now, chatVars, usersVars,
                   pageVars>>

\* The insert of the message.
MessagesInsert(r) ==
    /\ msgReq[r].pc = "insert"
    /\ messages' = Append(messages,
                          [conversationId |-> msgReq[r].body[1].conversationId,
                           role |-> msgReq[r].body[1].role,
                           content |-> msgReq[r].body[1].content])
    /\ msgReq' = [msgReq EXCEPT ![r].pc = "update"]
    /\ UNCHANGED <<conversations, now, chatVars, usersVars, pageVars>>

\* The update of updatedAt of the conversation, and the 201 response.
MessagesUpdate(r) ==
    /\ msgReq[r].pc = "update"
    /\ conversations' =
          TouchConversation(conversations, msgReq[r].body[1].conversationId,
                            now)
    /\ now' = now + 1
    /\ MessageResponds(r, 201)
    /\ UNCHANGED <<messages, chatVars, usersVars, pageVars>>

MessagesNext ==
    \E r \in Posts :
        \/ MessagesAuth(r)
        \/ MessagesSelect(r)
        \/ MessagesInsert(r)
        \/ MessagesUpdate(r)

MessagesSpec == MessagesInit /\ [][MessagesNext]_vars

-----------------------------------------------------------------------------
(* The chat page: handleSend *)

Sends == 1..MaxSends

\* The texts the input box may hold.
Texts == {"", " ", "hi"}

\* text.trim(), on Texts.
Trim(text) == IF text = " " THEN "" ELSE text

\* The values of the state variables that a render captures in the closures
\* of handleSend and handleKeyPress and in the disabled attributes.
Snapshot ==
    [input |-> input, isLoading |-> isLoading,
     conversationId |-> conversationId]

\* An invocation of handleSend is running between its first fetch and its
\* finally block.
Awaiting == {"userMessage", "chat", "assistantMessage", "query"}

\* if (!input.trim() || isLoading || !conversationId) return;
\* with the variables of the render that created the handler.
Guard(closure) ==
    \/ Trim(closure.input) = ""
    \/ closure.isLoading
    \/ closure.conversationId = Undefined

\* The page once initialize has finished, with or without a conversation,
\* and has rendered.
ChatPageInit ==
    /\ input = ""
    /\ isLoading = FALSE
    /\ conversationId \in {Undefined, Some("c1")}
    /\ rendered = Snapshot
    /\ sends = [s \in Sends |-> [pc |-> "idle", content |-> ""]]
    /\ fetches = [s \in Sends |-> <<>>]
    /\ ChatIdle
    /\ UsersIdle
    /\ MessagesIdle

\* onChange of the input box, which is disabled while the rendered
\* isLoading is true.
Type ==
    /\ ~rendered.isLoading
    /\ \E text \in Texts \ {input} : input' = text
    /\ UNCHANGED <<isLoading, conversationId, rendered, sends, fetches,
                   chatVars, usersVars, messagesVars>>

\* The component renders again with the current state.
Render ==
    /\ rendered # Snapshot
    /\ rendered' = Snapshot
    /\ UNCHANGED <<input, isLoading, conversationId, sends, fetches,
                   chatVars, usersVars, messagesVars>>

\* An invocation of handleSend, up to its first await: the guard, the two
\* state updates and the fetch that saves the user message.
HandleSend(s) ==
    /\ sends[s].pc = "idle"
    /\ \A t \in 1..s - 1 : sends[t].pc # "idle"
    /\ IF Guard(rendered)
       THEN /\ sends' = [sends EXCEPT ![s].pc = "returned"]
            /\ UNCHANGED <<input, isLoading, fetches>>
       ELSE /\ input' = ""
            /\ isLoading' = TRUE
            /\ sends' = [sends EXCEPT ![s] = [pc |-> "userMessage",
                                              content |-> rendered.input]]
            /\ fetches' = [fetches EXCEPT ![s] = <<"/api/messages">>]
    /\ UNCHANGED <<conversationId, rendered, chatVars, usersVars,
                   messagesVars>>

\* catch and finally: setIsLoading(false).
Finally(s) ==
    /\ isLoading' = FALSE
    /\ sends' = [sends EXCEPT ![s].pc = "done"]

\* A fetch of invocation s has returned a response that is ok, and the
\* invocation goes on to the fetch of url.
Continue(s, stage, url) ==
    /\ sends' = [sends EXCEPT ![s].pc = stage]
    /\ fetches' = [fetches EXCEPT ![s] = Append(@, url)]
    /\ UNCHANGED isLoading

\* The fetch that saves the user message returns.
UserMessageSaved(s) ==
    /\ sends[s].pc = "userMessage"
    /\ \/ Continue(s, "chat", "/api/chat")
       \/ Finally(s) /\ UNCHANGED fetches
    /\ UNCHANGED <<input, conversationId, rendered, chatVars, usersVars,
                   messagesVars>>

\* The fetch of the answer returns.
ChatAnswered(s) ==
    /\ sends[s].pc = "chat"
    /\ \/ Continue(s, "assistantMessage", "/api/messages")
       \/ Finally(s) /\ UNCHANGED fetches
    /\ UNCHANGED <<input, conversationId, rendered, chatVars, usersVars,
                   messagesVars>>

\* The fetch that saves the assistant message returns.
AssistantMessageSaved(s) ==
    /\ sends[s].pc = "assistantMessage"
    /\ \/ Continue(s, "query", "/api/queries")
       \/ Finally(s) /\ UNCHANGED fetches
    /\ UNCHANGED <<input, conversationId, rendered, chatVars, usersVars,
                   messagesVars>>

\* The fetch that tracks the query returns or rejects.
QueryTracked(s) ==
    /\ sends[s].pc = "query"
    /\ Finally(s)
    /\ UNCHANGED <<input, conversationId, rendered, fetches, chatVars,
                   usersVars, messagesVars>>

ChatPageNext ==
    \/ Type
    \/ Render
    \/ \E s \in Sends :
          \/ HandleSend(s)
          \/ UserMessageSaved(s)
          \/ ChatAnswered(s)
          \/ AssistantMessageSaved(s)
          \/ QueryTracked(s)

ChatPageSpec == ChatPageInit /\ [][ChatPageNext]_vars

-----------------------------------------------------------------------------
(* Properties of the fusion *)

FusionApplied == pc = "fusion_out"

\* The score of id in a normalized ranking that lists it once.
NormScoreOf(norm, id) ==
    norm[CHOOSE i \in 1..Len(norm) : norm[i].id = id].score

ExpectedFused(id) ==
    RatAdd(IF id \in IdSet(vNorm)
              THEN RatMul(alpha, NormScoreOf(vNorm, id)) ELSE Zero,
           IF id \in IdSet(bNorm)
              THEN RatMul(OneMinus(alpha), NormScoreOf(bNorm, id)) ELSE Zero)

\* C1: once the fusion is applied to two rankings (distinct ids in each),
\* every id of either ranking has in the output the score
\* alpha*v + (1-alpha)*l, where v and l are its normalized scores in the
\* vector and the lexical ranking and an absent method contributes 0.
C1_FusedScoreIsWeightedSum ==
    FusionApplied =>
        \A id \in IdSet(vectorResults) \cup IdSet(bm25Results) :
            \E i \in 1..Len(fusedResults) :
                /\ fusedResults[i].id = id
                /\ fusedResults[i].score = ExpectedFused(id)

\* An id of both rankings got a contribution of each, under an uneven weight.
C1_Witness ==
    /\ FusionApplied
    /\ alpha = [n |-> 1, d |-> 4]
    /\ \E id \in IdSet(vectorResults) \cap IdSet(bm25Results) :
          /\ NormScoreOf(vNorm, id) = One
          /\ NormScoreOf(bNorm, id) = [n |-> 1, d |-> 3]
          /\ \E i \in 1..Len(fusedResults) :
                /\ fusedResults[i].id = id
                /\ fusedResults[i].score = [n |-> 1, d |-> 2]
    /\ IdSet(bm25Results) \ IdSet(vectorResults) # {}

\* The ids in the order in which the fusion first sees them: the vector
\* ranking, then the ids of the lexical ranking not seen before.
FirstSeen ==
    IdsOf(vectorResults)
        \o SelectSeq(IdsOf(bm25Results),
                     LAMBDA id : id \notin IdSet(vectorResults))

PositionIn(ids, id) == CHOOSE i \in 1..Len(ids) : ids[i] = id

\* C2: the fused ranking truncated to K has at most K entries, is sorted by
\* non-increasing score, and ids of equal score stand in first-seen order,
\* whatever the form of the ids.
C2_TruncatedSortedStable ==
    pc = "fusion_top" =>
        LET top == Slice(fusedResults, topK)
        IN  /\ Len(topFusedIds) <= topK
            /\ topFusedIds = IdsOf(top)
            /\ \A i, j \in 1..Len(top) :
                  i < j =>
                    /\ RatLeq(top[j].score, top[i].score)
                    /\ top[i].score = top[j].score =>
                          PositionIn(FirstSeen, top[i].id)
                              < PositionIn(FirstSeen, top[j].id)

\* The tie-break of C2 does hold on inputs none of whose ids is an array
\* index.
C2_StableWithoutArrayIndexIds ==
    (\A id \in IdSet(vectorResults) \cup IdSet(bm25Results) :
         ~IsArrayIndex(id))
    => C2_TruncatedSortedStable

\* The scenario of C2: vector [a, b], lexical [b, c], the first of each
\* with the larger raw score, alpha 1/2 and K = 2 give [a, b].
C2_Scenario ==
    IdsOf(Slice(weightedFusion(<<Row("a", Some(3)), Row("b", Some(1))>>,
                               <<Row("b", Some(3)), Row("c", Some(1))>>,
                               FUSION_ALPHA), 2)) = <<"a", "b">>

RawOf(rows) == RawScores(rows)

NormalizedWithin(rows, norm) ==
    /\ Len(norm) = Len(rows)
    /\ \A i \in 1..Len(norm) :
          /\ norm[i].id = rows[i].id
          /\ norm[i].score.d > 0
          /\ RatLeq(Zero, norm[i].score)
          /\ RatLeq(norm[i].score, One)
    /\ (\E i, j \in 1..Len(rows) : RawOf(rows)[i] # RawOf(rows)[j]) =>
          \A i \in 1..Len(rows) :
              /\ (\A j \in 1..Len(rows) : RawOf(rows)[j] <= RawOf(rows)[i])
                    => norm[i].score = One
              /\ (\A j \in 1..Len(rows) : RawOf(rows)[i] <= RawOf(rows)[j])
                    => norm[i].score = Zero

\* C3: every score normalize produces lies in [0,1]; when the raw scores of
\* a ranking are not all equal, each row of maximum raw score gets 1 and
\* each row of minimum raw score gets 0.
C3_NormalizedInUnitInterval ==
    FusionApplied =>
        /\ NormalizedWithin(vectorResults, vNorm)
        /\ NormalizedWithin(bm25Results, bNorm)

\* A ranking of two different raw scores was normalized.
C3_Witness ==
    /\ FusionApplied
    /\ Len(vectorResults) = 2
    /\ RawOf(vectorResults) = <<1, 3>>
    /\ vNorm[1].score = Zero
    /\ vNorm[2].score = One
    /\ Len(bm25Results) = 2
    /\ RawOf(bm25Results) = <<0, 0>>

AllEqual(rows) ==
    /\ Len(rows) > 0
    /\ \A i, j \in 1..Len(rows) : RawOf(rows)[i] = RawOf(rows)[j]

DegenerateToZero(rows, norm) ==
    AllEqual(rows) =>
        /\ NormRange(MathMax(RawOf(rows)), MathMin(RawOf(rows))) # 0
        /\ Len(norm) = Len(rows)
        /\ \A i \in 1..Len(norm) : norm[i].score = Zero

\* C4: a non-empty ranking whose raw scores are all equal (a single row
\* included) normalizes to 0 in every row, and the divisor is not 0.
C4_DegenerateRangeGivesZero ==
    FusionApplied =>
        /\ DegenerateToZero(vectorResults, vNorm)
        /\ DegenerateToZero(bm25Results, bNorm)

\* A single row and two rows of the same non-zero raw score were normalized.
C4_Witness ==
    /\ FusionApplied
    /\ Len(vectorResults) = 1
    /\ RawOf(vectorResults) = <<3>>
    /\ RawOf(bm25Results) = <<1, 1>>
    /\ bNorm[2].score = Zero

Swapped == weightedFusion(bm25Results, vectorResults, OneMinus(alpha))

\* C5 as stated: feeding the rankings in the other order with weight
\* 1 - alpha gives the same ordered output, ties included.
C5_SwapSameOrder == FusionApplied => fusedResults = Swapped

\* C5 amended: the swapped call returns the same ids with the same scores,
\* and two ids of different score stand in the same order in both outputs.
C5_SwapSameScores ==
    FusionApplied =>
        LET swapped == Swapped
            ids == IdsOf(swapped)
        IN  /\ Len(swapped) = Len(fusedResults)
            /\ Range(swapped) = Range(fusedResults)
            /\ \A i, j \in 1..Len(fusedResults) :
                  (i < j /\ fusedResults[i].score # fusedResults[j].score) =>
                      PositionIn(ids, fusedResults[i].id)
                          < PositionIn(ids, fusedResults[j].id)

\* Under an uneven weight the two calls rank an id of both rankings first
\* and differ in the order of two ids tied behind it.
C5_Witness ==
    /\ FusionApplied
    /\ alpha = [n |-> 1, d |-> 4]
    /\ Len(fusedResults) = 3
    /\ fusedResults[1].id \in IdSet(vectorResults) \cap IdSet(bm25Results)
    /\ RatLess(fusedResults[2].score, fusedResults[1].score)
    /\ fusedResults[2].score = fusedResults[3].score
    /\ IdsOf(Swapped) = <<fusedResults[1].id, fusedResults[3].id,
                          fusedResults[2].id>>

\* C6: the output of the fusion lists each id of the vector or the lexical
\* ranking exactly once.
C6_OneEntryPerId ==
    FusionApplied =>
        /\ IdSet(fusedResults) = IdSet(vectorResults) \cup IdSet(bm25Results)
        /\ \A i, j \in 1..Len(fusedResults) :
              fusedResults[i].id = fusedResults[j].id => i = j

\* Three ids were fused, one of them listed by both rankings.
C6_Witness ==
    /\ FusionApplied
    /\ Len(fusedResults) = 3
    /\ Len(vectorResults) = 2
    /\ Len(bm25Results) = 2
    /\ Cardinality(IdSet(vectorResults) \cap IdSet(bm25Results)) = 1

-----------------------------------------------------------------------------
(* Properties of the request *)

\* The context block has been assembled.
Assembled ==
    \/ pc = "generating"
    \/ pc = "done" /\ failedAt \in {"none", "generate"}

\* The texts of the rows that have a non-empty text, in the order of the rows.
RECURSIVE NonEmptyTexts(_)
NonEmptyTexts(rows) ==
    IF rows = <<>> THEN <<>>
    ELSE (IF Head(rows).text \in {Undefined, Some("")}
             THEN <<>> ELSE <<Head(rows).text[1]>>)
         \o NonEmptyTexts(Tail(rows))

RECURSIVE SeparatedByBlankLine(_)
SeparatedByBlankLine(texts) ==
    IF Len(texts) = 1 THEN texts[1]
    ELSE texts[1] \o "\n\n" \o SeparatedByBlankLine(Tail(texts))

\* C7: the assembled context block is "" exactly when no selected row has a
\* non-empty text; otherwise it is START CONTEXT BLOCK, the non-empty texts
\* of the selected rows in fused rank order separated by a blank line, and
\* END OF CONTEXT BLOCK.  The markers never enclose nothing.
C7_ContextBlockShape ==
    Assembled =>
        LET texts == NonEmptyTexts(ragRows)
        IN  /\ IdsOf(ragRows) = topFusedIds
            /\ (contextBlock = "") <=> (texts = <<>>)
            /\ texts # <<>> =>
                  contextBlock = "START CONTEXT BLOCK\n"
                                     \o SeparatedByBlankLine(texts)
                                     \o "\nEND OF CONTEXT BLOCK"
            /\ contextBlock # "START CONTEXT BLOCK\n\nEND OF CONTEXT BLOCK"

\* Three rows were selected, the one of empty text ranked between the two
\* with text, and the block holds the two texts.
C7_Witness ==
    /\ Assembled
    /\ topFusedIds = <<"b", "c", "a">>
    /\ contextBlock =
          "START CONTEXT BLOCK\ntext of b\n\ntext of a\nEND OF CONTEXT BLOCK"

\* C8: a selected row whose text is empty or missing is left out of the
\* context block and never makes the request fail: once the metadata query
\* has returned, the block is assembled from the other rows and the
\* generation is called.
C8_EmptyOrMissingTextLeftOut ==
    (metaState = "ok"
        /\ \E i \in 1..Len(ragRows) : ragRows[i].text \in {Undefined, Some("")})
    => /\ failedAt \in {"none", "generate"}
       /\ calls.gen = 1
       /\ contextBlock = ContextBlock(NonEmptyTexts(ragRows))

\* C9: when the embedding call or the search call fails, the request ends
\* with status 500, the failed call was made once, and no context is
\* assembled and no generation call made.
C9_RetrievalFailureAborts ==
    /\ calls.embed <= 1
    /\ calls.search <= 1
    /\ failedAt \in {"embed", "search"} =>
          /\ pc = "done"
          /\ response = 500
          /\ calls.embed = 1
          /\ calls.search = (IF failedAt = "search" THEN 1 ELSE 0)
          /\ calls.meta = 0
          /\ calls.gen = 0
          /\ contextBlock = ""

\* The search call failed after the embedding call succeeded.
C9_Witness ==
    /\ failedAt = "search"
    /\ response = 500
    /\ calls = [embed |-> 1, search |-> 1, meta |-> 0, gen |-> 0]

\* C10: a failure of the metadata query is not fatal: the request still
\* assembles the context block from the selected rows and calls the
\* generation.
C10_MetadataFailureNonFatal ==
    metaState = "failed" =>
        /\ failedAt # "metadata"
        /\ calls.gen = 1
        /\ contextBlock = ContextBlock(NonEmptyTexts(ragRows))

\* The search has returned and the rows have been selected.
Searched ==
    \/ pc \in {"metadata", "generating"}
    \/ pc = "done" /\ failedAt \in {"none", "metadata", "log", "generate"}

\* C11: once the metadata query has returned and the context is assembled,
\* the passages of the context block are the non-empty texts of all selected
\* rows, those of the ids without a metadata record included: they do not
\* depend on which ids have a record.
C11_ContextIndependentOfMetadata ==
    (Assembled /\ metaState = "ok") =>
        /\ contextItems = NonEmptyTexts(ragRows)
        /\ \A i \in 1..Len(ragRows) :
              (ragRows[i].id \notin metadata
                  /\ ragRows[i].text \notin {Undefined, Some("")})
              => \E j \in 1..Len(contextItems) :
                    contextItems[j] = ragRows[i].text[1]

\* Of two selected documents one has a metadata record and the other, which
\* has a text, has none, and the text is in the context block.
C11_Witness ==
    /\ Assembled
    /\ metaState = "ok"
    /\ topFusedIds = <<"a", "c">>
    /\ metadata = {"c"}
    /\ contextItems = <<"text of a">>
    /\ contextBlock = "START CONTEXT BLOCK\ntext of a\nEND OF CONTEXT BLOCK"

\* The queries without a character other than white space.
BlankQueries == {"", " "}

\* C12: a request whose query is empty or only white space is rejected
\* before any upstream call: no embedding, search, metadata or generation
\* call is made for it.
C12_BlankQueryRejected ==
    (pc # "start" /\ failedAt # "parse" /\ userQuery \in BlankQueries) =>
        calls = [embed |-> 0, search |-> 0, meta |-> 0, gen |-> 0]

\* C13: when both searches return no row, the fused list is empty, the
\* context block is the empty string, and neither the metadata query nor
\* the generation is called.
C13_EmptyRankingsNoCalls ==
    (Searched /\ vectorResults = <<>> /\ bm25Results = <<>>) =>
        /\ fusedResults = <<>>
        /\ contextBlock = ""
        /\ calls.meta = 0
        /\ calls.gen = 0

\* What the log of normalize would hold for a list it returned on before
\* computing a range.
NotComputed == "not computed"

\* The fused scores are those of the ranking norm alone, each normalized
\* score times weight.
OnlyFrom(norm, weight) ==
    /\ IdSet(fusedResults) = IdSet(norm)
    /\ \A i \in 1..Len(fusedResults) :
          fusedResults[i].score =
              RatMul(weight, NormScoreOf(norm, fusedResults[i].id))

\* C14 as stated: normalizing an empty ranking returns an empty list without
\* computing a min, max or range over it, and the fused scores are those of
\* the other ranking alone.
C14_EmptyShortCircuits ==
    FusionApplied =>
        /\ vectorResults = <<>> =>
              /\ vNorm = <<>>
              /\ ranges[1] = NotComputed
              /\ OnlyFrom(bNorm, OneMinus(alpha))
        /\ bm25Results = <<>> =>
              /\ bNorm = <<>>
              /\ ranges[2] = NotComputed
              /\ OnlyFrom(vNorm, alpha)

\* C14, amended: normalizing an empty ranking returns an empty list; the
\* range is still computed over it, as -Infinity, and no score is computed
\* from it; the fused scores are those of the other ranking alone, each
\* normalized score times the weight of that ranking.
C14_EmptyNormalizesToEmpty ==
    FusionApplied =>
        /\ vectorResults = <<>> =>
              /\ vNorm = <<>>
              /\ ranges[1] = NegInfinity
              /\ OnlyFrom(bNorm, OneMinus(alpha))
        /\ bm25Results = <<>> =>
              /\ bNorm = <<>>
              /\ ranges[2] = NegInfinity
              /\ OnlyFrom(vNorm, alpha)

\* The vector ranking is empty and the lexical one has two rows of
\* different raw scores: the fused list has both, the better one with the
\* whole weight of the lexical ranking.
C14_Witness ==
    /\ FusionApplied
    /\ vectorResults = <<>>
    /\ vNorm = <<>>
    /\ alpha = FUSION_ALPHA
    /\ IdsOf(bm25Results) = <<"a", "b">>
    /\ bm25Results[1].dist = Some(1)
    /\ bm25Results[2].dist = Some(3)
    /\ IdsOf(fusedResults) = <<"b", "a">>
    /\ fusedResults[1].score = FUSION_ALPHA

\* C15: every id of the fused top RAG_TOP_K resolves to exactly one row; it
\* is the row of the vector search when the vector search returned the id,
\* and the row of the lexical search only otherwise.
C15_VectorRowPreferred ==
    Searched =>
        /\ IdsOf(ragRows) = topFusedIds
        /\ \A i \in 1..Len(ragRows) :
              IF ragRows[i].id \in IdSet(vectorResults)
              THEN \E j \in 1..Len(vectorResults) :
                      vectorResults[j] = ragRows[i]
              ELSE \E j \in 1..Len(bm25Results) :
                      bm25Results[j] = ragRows[i]

\* Both searches returned document a, with different raw scores, and the
\* selected row of a is the one of the vector search.
C15_Witness ==
    /\ Searched
    /\ vectorResults = <<Row("a", Some(1))>>
    /\ bm25Results = <<Row("a", Some(3)), Row("c", Some(1))>>
    /\ topFusedIds = <<"a", "c">>
    /\ ragRows = <<Row("a", Some(1)), Row("c", Some(1))>>

\* C16: a request queries the metadata store at most once, and the one
\* query asks for all selected ids together.
C16_OneMetadataQuery ==
    /\ calls.meta <= 1
    /\ Searched =>
          /\ vectorIds = topFusedIds
          /\ calls.meta = (IF topFusedIds = <<>> THEN 0 ELSE 1)

\* Three documents were selected and the request ended after one metadata
\* query for the three.
C16_Witness ==
    /\ pc = "done"
    /\ failedAt = "none"
    /\ Len(topFusedIds) = RAG_TOP_K
    /\ vectorIds = topFusedIds
    /\ calls.meta = 1

-----------------------------------------------------------------------------
(* Properties of POST /api/users *)

\* The users table has at most one row of a user id.
AtMostOneRowPerUser ==
    \A i, j \in 1..Len(users) : users[i].id = users[j].id => i = j

\* C17: whatever the interleaving of the requests, the users table has at
\* most one row of a user id, and every finished request of a signed-in
\* user with an email address answered 200 or 201 with that row.
C17_ConcurrentCreateReturnsUser ==
    /\ AtMostOneRowPerUser
    /\ \A r \in Requests :
          (userReq[r].pc = "done" /\ userReq[r].session.email # Undefined)
          => /\ userReq[r].status \in {200, 201}
             /\ userReq[r].body =
                    SelectUser(users, userReq[r].session.userId[1])

-----------------------------------------------------------------------------
(* Properties of POST /api/messages *)

\* The conversation id exists and is a conversation of the user of request r.
OwnConversation(r) ==
    /\ msgReq[r].userId # Undefined
    /\ msgReq[r].body # Undefined
    /\ \E i \in 1..Len(conversations) :
          /\ conversations[i].id = msgReq[r].body[1].conversationId
          /\ conversations[i].userId = msgReq[r].userId[1]

\* Request r has inserted its message.
HasInserted(r) == msgReq[r].pc = "update" \/ msgReq[r].status = 201

\* C18: every message row was inserted by a request of a signed-in user for
\* a conversation that exists and is that user's; a finished request without
\* a signed-in user has status 401, one with a body whose conversation is
\* missing or another user's has status 404, and such requests insert no
\* message and change no updatedAt: the messages are those of the other
\* requests, one each, and a conversation was updated only by a request
\* that answered 201 for it.
C18_InsertOnlyIntoOwnConversation ==
    /\ \A r \in Posts :
          /\ HasInserted(r) => OwnConversation(r)
          /\ (msgReq[r].pc = "done" /\ msgReq[r].userId = Undefined)
                 <=> msgReq[r].status = 401
          /\ (msgReq[r].pc = "done" /\ msgReq[r].body # Undefined
                  /\ ~OwnConversation(r))
                 <=> msgReq[r].status = 404
          /\ msgReq[r].status \in {401, 404} => ~HasInserted(r)
    /\ Len(messages) = Cardinality({r \in Posts : HasInserted(r)})
    /\ \A i \in 1..Len(messages) :
          \E r \in Posts :
              /\ HasInserted(r)
              /\ msgReq[r].body[1].conversationId = messages[i].conversationId
              /\ msgReq[r].body[1].role = messages[i].role
    /\ \A i \in 1..Len(conversations) :
          conversations[i].updatedAt # 0 =>
              \E r \in Posts :
                  /\ msgReq[r].status = 201
                  /\ OwnConversation(r)
                  /\ msgReq[r].body[1].conversationId = conversations[i].id

\* The first user asked for the conversation of the second and got 404,
\* the second user posted to it and got 201: the table has the one message
\* of the second user and only that conversation was updated.
C18_Witness ==
    /\ msgReq[1].status = 404
    /\ msgReq[1].userId = Some("user_1")
    /\ msgReq[1].body[1].conversationId = "c2"
    /\ msgReq[2].status = 201
    /\ msgReq[2].userId = Some("user_2")
    /\ messages = <<[conversationId |-> "c2", role |-> "user",
                     content |-> "hello"]>>
    /\ conversations[1].updatedAt = 0
    /\ conversations[2].updatedAt # 0

-----------------------------------------------------------------------------
(* Properties of the chat page *)

InProgress(s) == sends[s].pc \in Awaiting

\* C19: at most one invocation of handleSend is in progress at a time: an
\* invocation made while an earlier one has not finished issues no request.
C19_AtMostOneSendInProgress ==
    Cardinality({s \in Sends : InProgress(s)}) <= 1

\* An invocation of handleSend made once the component has rendered with
\* isLoading true issues no request.
SendBlockedAfterRender ==
    [][\A s \in Sends :
          (rendered.isLoading /\ HandleSend(s)) => fetches'[s] = <<>>]_vars

\* When an invocation of handleSend finishes, whichever fetch failed,
\* isLoading is false.
LoadingResetOnFinish ==
    [][\A s \in Sends :
          (InProgress(s) /\ sends'[s].pc = "done") => ~isLoading']_vars

====
